---- MODULE Spec2Model ----
(***************************************************************************)
(* A model of SED/run_SED_fit.py: the file preparer (setup_data_files),    *)
(* the time window resolver (get_time_window, MJD_to_MET, MET_to_MJD) and  *)
(* the orchestration of one run (run_fit) against the fermipy engine.      *)
(*                                                                         *)
(* Strings are sequences of one-character strings, so that substring       *)
(* tests, split and join are computed and not assumed.  A Python value     *)
(* that may be None is a sequence of length at most one: <<>> is None and  *)
(* <<v>> is the value v.  Times are integers: MJD in units of 1/1000 day,  *)
(* MET in seconds, every float operation rounded to that resolution.       *)
(* Base-10 logarithms are integers in units of 1/10 dex.                   *)
(***************************************************************************)
EXTENDS Integers, Sequences, FiniteSets, TLC

VARIABLES
    args,       \* the argument dictionary of run_fit
    folder,     \* the names os.listdir gives for the data directory
    headers,    \* file name -> [TSTART, TSTOP] of the FITS header of extension 1
    events,     \* the content of events.txt (None: the file is absent / untracked)
    renames,    \* the os.rename calls made so far, <<from, to>> each
    opened,     \* the files fits.open was called on
    dirs,       \* the output directories that exist
    pc,         \* the position in run_fit, or the state of a stand-alone call
    exc,        \* the exception that ended the call ("" if none)
    tmin, tmax, \* the resolved time window (None before it is resolved)
    basepath,   \* the output directory of the run (None before it is named)
    written,    \* the document dumped to config.yaml (None before it is written)
    trace,      \* the calls made on the file system and the engine, in order
    free_pars,  \* the local free_pars of run_fit (<<"unset">> before it is bound)
    template,   \* the document loaded from default.yaml
    mjd_time, met_time, mjd_back  \* a conversion round trip

vars == <<args, folder, headers, events, renames, opened, dirs, pc, exc, tmin, tmax,
          basepath, written, trace, free_pars, template, mjd_time, met_time, mjd_back>>

-----------------------------------------------------------------------------
(* Bounds of the model *)

MaxPH == 2          \* photon files PH1..PHn that may be in the data directory
MaxSC == 2          \* spacecraft files SC1..SCn that may be in the data directory
MaxTime == 3        \* header times 1..MaxTime of the stand-alone resolver calls
MaxFreeSources == 2 \* length of the longest free_sources list
MaxConvInputs == 60 \* number of MJD inputs of the conversion round trip

-----------------------------------------------------------------------------
(* Python values *)

None == <<>>
Some(v) == <<v>>
IsNone(x) == Len(x) = 0
Value(x) == x[1]

Digit(i) == <<"0", "1", "2", "3", "4", "5", "6", "7", "8", "9">>[i + 1]

\* 'm in s' for strings
Contains(s, m) == \E i \in 1..(Len(s) - Len(m) + 1) : SubSeq(s, i, i + Len(m) - 1) = m

\* s.replace(a, b) for one-character a and b
Replace(s, a, b) == [i \in 1..Len(s) |-> IF s[i] = a THEN b ELSE s[i]]

\* s.split('/')[-1]
RECURSIVE LastSegment(_)
LastSegment(s) ==
    IF Len(s) = 0 THEN <<>>
    ELSE IF s[Len(s)] = "/" THEN <<>>
    ELSE LastSegment(SubSeq(s, 1, Len(s) - 1)) \o <<s[Len(s)]>>

\* os.path.join(a, b)
PathJoin(a, b) ==
    IF Len(b) > 0 /\ b[1] = "/" THEN b
    ELSE IF Len(a) = 0 \/ a[Len(a)] = "/" THEN a \o b
    ELSE a \o <<"/">> \o b

\* "\n".join(lines)
RECURSIVE JoinLines(_)
JoinLines(lines) ==
    IF Len(lines) = 0 THEN <<>>
    ELSE IF Len(lines) = 1 THEN lines[1]
    ELSE lines[1] \o <<"\n">> \o JoinLines(Tail(lines))

\* The orders in which the members of S can appear in a directory listing.
RECURSIVE Orderings(_)
Orderings(S) ==
    IF S = {} THEN {<<>>}
    ELSE UNION {{<<x>> \o t : t \in Orderings(S \ {x})} : x \in S}

-----------------------------------------------------------------------------
(* File names *)

EVENTS == <<"e", "v", "e", "n", "t", "s", ".", "t", "x", "t">>
SPACECRAFT == <<"s", "p", "a", "c", "e", "c", "r", "a", "f", "t", ".", "f", "i", "t", "s">>
PH == <<"P", "H">>
SC == <<"S", "C">>

PHName(i) == <<"P", "H", Digit(i)>>
SCName(i) == <<"S", "C", Digit(i)>>
MIXED == <<"P", "H", "S", "C">>      \* carries both markers
PLAIN == <<"C", "S", "H", "P">>      \* carries neither marker

PHNames == {PHName(i) : i \in 1..MaxPH}
SCNames == {SCName(i) : i \in 1..MaxSC}
Pool == PHNames \cup SCNames \cup {MIXED, PLAIN, EVENTS, SPACECRAFT}

DataPath == <<"d">>

-----------------------------------------------------------------------------
(* setup_data_files(folder).  ph_order is the order in which os.listdir gave
   the files whose names contain 'PH': the list comprehension keeps the order
   of the listing, and nothing else of the listing's order is read. *)

PhFiles(files) == {f \in files : Contains(f, PH)}
ScFiles(files) == {f \in files : Contains(f, SC)}

\* setup_data_files with 'len(sc_files) >= 1' for 'len(sc_files) == 1'
SetupDataFiles_AnySc(files, ev, ph_order) ==
    LET ev1 == IF EVENTS \notin files
               THEN Some(JoinLines([i \in 1..Len(ph_order) |-> PathJoin(DataPath, ph_order[i])]))
               ELSE ev
        files1 == files \cup {EVENTS}
        sc_files == ScFiles(files)
    IN  IF SPACECRAFT \notin files
        THEN IF Cardinality(sc_files) >= 1
             THEN LET sc == CHOOSE f \in sc_files : TRUE
                  IN  [files |-> (files1 \ {sc}) \cup {SPACECRAFT},
                       events |-> ev1,
                       renames |-> <<<<PathJoin(DataPath, sc), PathJoin(DataPath, SPACECRAFT)>>>>,
                       exc |-> ""]
             ELSE [files |-> files1, events |-> ev1, renames |-> <<>>,
                   exc |-> "Exception: No Spacecraft File Available!"]
        ELSE [files |-> files1, events |-> ev1, renames |-> <<>>, exc |-> ""]

\* setup_data_files renaming the first 'SC' file before it counts them
SetupDataFiles_RenameThenCount(files, ev, ph_order) ==
    LET ev1 == IF EVENTS \notin files
               THEN Some(JoinLines([i \in 1..Len(ph_order) |-> PathJoin(DataPath, ph_order[i])]))
               ELSE ev
        files1 == files \cup {EVENTS}
        sc_files == ScFiles(files)
    IN  IF SPACECRAFT \notin files
        THEN IF Cardinality(sc_files) >= 1
             THEN LET sc == CHOOSE f \in sc_files : TRUE
                  IN  [files |-> (files1 \ {sc}) \cup {SPACECRAFT},
                       events |-> ev1,
                       renames |-> <<<<PathJoin(DataPath, sc), PathJoin(DataPath, SPACECRAFT)>>>>,
                       exc |-> IF Cardinality(sc_files) = 1 THEN ""
                               ELSE "Exception: No Spacecraft File Available!"]
             ELSE [files |-> files1, events |-> ev1, renames |-> <<>>,
                   exc |-> "Exception: No Spacecraft File Available!"]
        ELSE [files |-> files1, events |-> ev1, renames |-> <<>>, exc |-> ""]

SetupDataFiles(files, ev, ph_order) ==
    LET ev1 == IF EVENTS \notin files
               THEN Some(JoinLines([i \in 1..Len(ph_order) |-> PathJoin(DataPath, ph_order[i])]))
               ELSE ev
        files1 == files \cup {EVENTS}
        sc_files == ScFiles(files)
    IN  IF SPACECRAFT \notin files
        THEN IF Cardinality(sc_files) = 1
             THEN LET sc == CHOOSE f \in sc_files : TRUE
                  IN  [files |-> (files1 \ {sc}) \cup {SPACECRAFT},
                       events |-> ev1,
                       renames |-> <<<<PathJoin(DataPath, sc), PathJoin(DataPath, SPACECRAFT)>>>>,
                       exc |-> ""]
             ELSE [files |-> files1, events |-> ev1, renames |-> <<>>,
                   exc |-> "Exception: No Spacecraft File Available!"]
        ELSE [files |-> files1, events |-> ev1, renames |-> <<>>, exc |-> ""]

-----------------------------------------------------------------------------
(* get_time_window(folder).  np.min and np.max fold the list in the order of
   the listing; an empty list raises ValueError. *)

Min2(a, b) == IF a <= b THEN a ELSE b
Max2(a, b) == IF a >= b THEN a ELSE b

RECURSIVE NpMin(_)
NpMin(xs) == IF Len(xs) = 1 THEN xs[1] ELSE Min2(xs[1], NpMin(Tail(xs)))

RECURSIVE NpMax(_)
NpMax(xs) == IF Len(xs) = 1 THEN xs[1] ELSE Max2(xs[1], NpMax(Tail(xs)))

\* get_time_window returning the bounds of the first file listed
GetTimeWindow_First(ph_order, hdr) ==
    IF Len(ph_order) = 0
    THEN [tmin |-> None, tmax |-> None, opened |-> {},
          exc |-> "ValueError: zero-size array to reduction operation"]
    ELSE [tmin |-> Some(hdr[ph_order[1]].TSTART), tmax |-> Some(hdr[ph_order[1]].TSTOP),
          opened |-> {ph_order[i] : i \in 1..Len(ph_order)}, exc |-> ""]

GetTimeWindow(ph_order, hdr) ==
    LET tmins == [i \in 1..Len(ph_order) |-> hdr[ph_order[i]].TSTART]
        tmaxs == [i \in 1..Len(ph_order) |-> hdr[ph_order[i]].TSTOP]
    IN  IF Len(ph_order) = 0
        THEN [tmin |-> None, tmax |-> None, opened |-> {},
              exc |-> "ValueError: zero-size array to reduction operation"]
        ELSE [tmin |-> Some(NpMin(tmins)), tmax |-> Some(NpMax(tmaxs)),
              opened |-> {ph_order[i] : i \in 1..Len(ph_order)}, exc |-> ""]

-----------------------------------------------------------------------------
(* MJD_to_MET and MET_to_MJD.  MJDREF = 51910.0 + 7.428703703703703E-4 days,
   rounded to 1/1000 day.  a * 86400 / 1000 = a * 432 / 5. *)

MJDREF == 51910001

RoundDiv(a, b) == (a + b \div 2) \div b

MJD_to_MET(mjd) == RoundDiv((mjd - MJDREF) * 432, 5)

\* MET_to_MJD with the reference epoch 51910.0, without its fractional part
MET_to_MJD_WholeRef(met) == RoundDiv(met * 5, 432) + (MJDREF - 1)

MET_to_MJD(met) == RoundDiv(met * 5, 432) + MJDREF

-----------------------------------------------------------------------------
(* Stand-alone calls of the module's functions *)

OldEvents == <<"o", "l", "d">>      \* the content of an events.txt found in place

\* The headers of the photon files of a run: file i covers [t0 + 1000 i', t0 + 1000 i' + 500 i]
\* with i' counted from the last file, so that neither bound is monotone in the
\* order of the names.
RunHeaders ==
    [f \in PhFiles(Pool) |->
        IF f = MIXED THEN [TSTART |-> 239557500, TSTOP |-> 239557600]
        ELSE LET i == CHOOSE k \in 1..MaxPH : PHName(k) = f
             IN  [TSTART |-> 239557417 + 1000 * (MaxPH - i),
                  TSTOP |-> 239557417 + 1000 * (MaxPH - i) + 500 * i]]

NoRun ==
    /\ args = None
    /\ template = None
    /\ dirs = {}
    /\ basepath = None
    /\ written = None
    /\ trace = <<>>
    /\ free_pars = <<"unset">>

NoWindow ==
    /\ tmin = None
    /\ tmax = None
    /\ opened = {}

NoConv ==
    /\ mjd_time = None
    /\ met_time = None
    /\ mjd_back = None

InitDir ==
    /\ folder \in SUBSET Pool
    /\ events = IF EVENTS \in folder THEN Some(OldEvents) ELSE None
    /\ headers = RunHeaders
    /\ renames = <<>>
    /\ pc = "idle"
    /\ exc = ""
    /\ NoRun /\ NoWindow /\ NoConv

SetupDataFilesCall ==
    /\ pc \in {"idle", "prepared", "failed"}
    /\ \E o \in Orderings(PhFiles(folder)) :
          LET r == SetupDataFiles(folder, events, o)
          IN  /\ folder' = r.files
              /\ events' = r.events
              /\ renames' = renames \o r.renames
              /\ exc' = r.exc
              /\ pc' = IF r.exc = "" THEN "prepared" ELSE "failed"
    /\ UNCHANGED <<args, headers, opened, dirs, tmin, tmax, basepath, written, trace,
                   free_pars, template, mjd_time, met_time, mjd_back>>

NextDir == SetupDataFilesCall

SpecDir == InitDir /\ [][NextDir]_vars

Times == 1..MaxTime
InitTime ==
    /\ folder \in SUBSET (PHNames \cup {MIXED, PLAIN})
    /\ headers \in [PhFiles(Pool) -> {s \in [TSTART : Times, TSTOP : Times] : s.TSTART < s.TSTOP}]
    /\ events = None
    /\ renames = <<>>
    /\ pc = "window"
    /\ exc = ""
    /\ NoRun /\ NoWindow /\ NoConv

GetTimeWindowCall ==
    /\ pc = "window"
    /\ \E o \in Orderings(PhFiles(folder)) :
          LET r == GetTimeWindow(o, headers)
          IN  /\ tmin' = r.tmin
              /\ tmax' = r.tmax
              /\ opened' = r.opened
              /\ exc' = r.exc
              /\ pc' = IF r.exc = "" THEN "resolved" ELSE "window_failed"
    /\ UNCHANGED <<args, folder, headers, events, renames, dirs, basepath, written, trace,
                   free_pars, template, mjd_time, met_time, mjd_back>>

NextTime == GetTimeWindowCall

SpecTime == InitTime /\ [][NextTime]_vars

InitConv ==
    /\ mjd_time \in {Some(54680000 + 10007 * k) : k \in 0..MaxConvInputs}
    /\ met_time = None
    /\ mjd_back = None
    /\ folder = {}
    /\ headers = RunHeaders
    /\ events = None
    /\ renames = <<>>
    /\ pc = "mjd"
    /\ exc = ""
    /\ NoRun /\ NoWindow

ToMET ==
    /\ pc = "mjd"
    /\ met_time' = Some(MJD_to_MET(Value(mjd_time)))
    /\ pc' = "met"
    /\ UNCHANGED <<args, folder, headers, events, renames, opened, dirs, exc, tmin, tmax,
                   basepath, written, trace, free_pars, template, mjd_time, mjd_back>>

ToMJD ==
    /\ pc = "met"
    /\ mjd_back' = Some(MET_to_MJD(Value(met_time)))
    /\ pc' = "back"
    /\ UNCHANGED <<args, folder, headers, events, renames, opened, dirs, exc, tmin, tmax,
                   basepath, written, trace, free_pars, template, mjd_time, met_time>>

NextConv == ToMET \/ ToMJD

SpecConv == InitConv /\ [][NextConv]_vars

-----------------------------------------------------------------------------
(* run_fit(args): the values a run is given *)

TargetSrc == <<"C", "_", "N">>
OutFolder == <<"o">>
ThisPath == <<"/", "t">>
XmlPath == <<"x", ".", "x", "m", "l">>
FGL == <<"3", "F", "G", "L">>
CONFIG_YAML == <<"c", "o", "n", "f", "i", "g", ".", "y", "a", "m", "l">>
ISODIFF == <<"i", "s", "o", "d", "i", "f", "f">>
GALDIFF == <<"g", "a", "l", "d", "i", "f", "f">>
SrcKey(i) == <<"s", Digit(i)>>

\* Energies are powers of ten, in MeV.
Energies == {100, 1000, 100000}

\* The lists --free_sources can give: the empty one and the longest one.
FreeSourceLists == {<<>>, [i \in 1..MaxFreeSources |-> SrcKey(i)]}

Templates ==
    { [selection |-> [emin |-> 50, emax |-> 500000, tmin |-> 0, tmax |-> 0,
                      target |-> <<"n", "o">>, zmax |-> 90],
       data |-> [evfile |-> <<"/", "a", "/", "e", ".", "t">>, scfile |-> <<"b", "/", "s", ".", "f">>,
                 ltcube |-> <<"l">>],
       model |-> [catalogs |-> <<<<"2", "F", "G", "L">>>>, src_roiwidth |-> 10],
       binning |-> [roiwidth |-> 8]],
      [selection |-> [emin |-> 100, emax |-> 100000, tmin |-> 1, tmax |-> 2,
                      target |-> <<"C", " ", "N">>, zmax |-> 100],
       data |-> [evfile |-> <<"e", ".", "t">>, scfile |-> <<"a", "/">>,
                 ltcube |-> <<>>],
       model |-> [catalogs |-> <<>>, src_roiwidth |-> 15],
       binning |-> [roiwidth |-> 10]] }

\* The data directories of a run: the first and the last photon file with the
\* first k spacecraft files; with all of them and spacecraft.fits; with one and
\* events.txt in place; and one without photon files.
RunPhotons == {PHName(1), PHName(MaxPH)}
RunFolders ==
    {RunPhotons \cup {SCName(i) : i \in 1..k} : k \in 0..MaxSC}
        \cup {RunPhotons \cup SCNames \cup {SPACECRAFT},
              RunPhotons \cup {SCName(1), EVENTS},
              {SCName(1)}}

ArgSets ==
    [target_src : {TargetSrc},
     emin : Energies, emax : Energies,
     time_range : {None, Some(<<55000000, 55010000>>)},
     data_path : {DataPath},
     outfolder : {None, Some(OutFolder)},
     xml_path : {None, Some(XmlPath)},
     use_3FGL : BOOLEAN,
     free_radius : {None, Some(3)},
     free_sources : {None} \cup {Some(l) : l \in FreeSourceLists},
     src_gamma : {None, Some(2)},
     free_norm : BOOLEAN,
     free_diff : BOOLEAN,
     retries : {5},
     no_sed : BOOLEAN]

InitRun ==
    /\ args \in {a \in ArgSets : a.emin < a.emax}
    /\ template \in Templates
    /\ folder \in RunFolders
    /\ events = IF EVENTS \in folder THEN Some(OldEvents) ELSE None
    /\ headers = RunHeaders
    /\ dirs \in {{}, {OutFolder}}
    /\ renames = <<>>
    /\ pc = "start"
    /\ exc = ""
    /\ basepath = None
    /\ written = None
    /\ trace = <<>>
    /\ free_pars = <<"unset">>
    /\ NoWindow /\ NoConv

\* line 53
Src == Replace(args.target_src, "_", " ")

\* lines 57-65
ResolveTime ==
    /\ pc = "start"
    /\ IF ~IsNone(args.time_range)
       THEN /\ tmin' = Some(MJD_to_MET(Value(args.time_range)[1]))
            /\ tmax' = Some(MJD_to_MET(Value(args.time_range)[2]))
            /\ pc' = "naming"
            /\ UNCHANGED <<opened, exc>>
       ELSE \E o \in Orderings(PhFiles(folder)) :
               LET r == GetTimeWindow(o, headers)
               IN  /\ tmin' = r.tmin
                   /\ tmax' = r.tmax
                   /\ opened' = r.opened
                   /\ exc' = r.exc
                   /\ pc' = IF r.exc = "" THEN "naming" ELSE "raised"
    /\ UNCHANGED <<args, folder, headers, events, renames, dirs, basepath, written, trace,
                   free_pars, template, mjd_time, met_time, mjd_back>>

\* str.format: a field with the format spec '.0f' accepts a number and raises
\* ValueError on a str; arguments beyond the fields are ignored.
FormatRaises(specs, types) ==
    \E i \in 1..Len(specs) : specs[i] = ".0f" /\ types[i] = "str"

\* lines 70-74: '{:.0f}_{:.0f}/{}_{}/'.format(target_src, mjd, mjd, int, int)
DefaultNameRaises ==
    FormatRaises(<<".0f", ".0f", "", "">>, <<"str", "float", "float", "int", "int">>)

\* The text of the default name, were it formatted: target_src through '.0f',
\* the first MJD through '.0f', the second MJD and int(emin) through '{}'.
DefaultName ==
    <<"{target_src:.0f}", "_", "{mjd(tmin):.0f}", "/", "{mjd(tmax)}", "_", "{emin}", "/">>

\* lines 66-75
NameOutput ==
    /\ pc = "naming"
    /\ IF ~IsNone(args.outfolder)
       THEN /\ basepath' = args.outfolder
            /\ pc' = "prep"
            /\ exc' = exc
       ELSE IF DefaultNameRaises
            THEN /\ exc' = "ValueError: Unknown format code 'f' for object of type 'str'"
                 /\ pc' = "raised"
                 /\ basepath' = basepath
            ELSE /\ basepath' = Some(PathJoin(ThisPath, DefaultName))
                 /\ pc' = "prep"
                 /\ exc' = exc
    /\ UNCHANGED <<args, folder, headers, events, renames, opened, dirs, tmin, tmax, written,
                   trace, free_pars, template, mjd_time, met_time, mjd_back>>

\* line 76
PrepareFiles ==
    /\ pc = "prep"
    /\ \E o \in Orderings(PhFiles(folder)) :
          LET r == SetupDataFiles(folder, events, o)
          IN  /\ folder' = r.files
              /\ events' = r.events
              /\ renames' = renames \o r.renames
              /\ exc' = r.exc
              /\ pc' = IF r.exc = "" THEN "mkdir" ELSE "raised"
    /\ UNCHANGED <<args, headers, opened, dirs, tmin, tmax, basepath, written, trace,
                   free_pars, template, mjd_time, met_time, mjd_back>>

\* lines 77-78
MakeOutdir ==
    /\ pc = "mkdir"
    /\ IF Value(basepath) \notin dirs
       THEN /\ dirs' = dirs \cup {Value(basepath)}
            /\ trace' = Append(trace, [line |-> 78, op |-> "makedirs", path |-> Value(basepath)])
       ELSE UNCHANGED <<dirs, trace>>
    /\ pc' = "config"
    /\ UNCHANGED <<args, folder, headers, events, renames, opened, exc, tmin, tmax, basepath,
                   written, free_pars, template, mjd_time, met_time, mjd_back>>

\* lines 97-101
Catalogs(a) ==
    (IF ~IsNone(a.xml_path) THEN <<Value(a.xml_path)>> ELSE <<>>)
        \o (IF a.use_3FGL THEN <<FGL>> ELSE <<>>)

\* lines 88-101 without the reset of line 97: the catalogs are appended to the template's
BuildConfig_AppendCatalogs(config, a, t0, t1) ==
    [config EXCEPT !.selection.emin = a.emin,
                   !.selection.emax = a.emax,
                   !.selection.tmin = t0,
                   !.selection.tmax = t1,
                   !.selection.target = Replace(a.target_src, "_", " "),
                   !.data.evfile = PathJoin(a.data_path, LastSegment(@)),
                   !.data.scfile = PathJoin(a.data_path, LastSegment(@)),
                   !.model.catalogs = @ \o Catalogs(a)]

\* lines 88-101
BuildConfig(config, a, t0, t1) ==
    [config EXCEPT !.selection.emin = a.emin,
                   !.selection.emax = a.emax,
                   !.selection.tmin = t0,
                   !.selection.tmax = t1,
                   !.selection.target = Replace(a.target_src, "_", " "),
                   !.data.evfile = PathJoin(a.data_path, LastSegment(@)),
                   !.data.scfile = PathJoin(a.data_path, LastSegment(@)),
                   !.model.catalogs = Catalogs(a)]

\* lines 81-103
WriteConfig ==
    /\ pc = "config"
    /\ written' = Some(BuildConfig(template, args, Value(tmin), Value(tmax)))
    /\ trace' = Append(trace, [line |-> 102, op |-> "dump",
                               path |-> PathJoin(Value(basepath), CONFIG_YAML)])
    /\ pc' = "construct"
    /\ UNCHANGED <<args, folder, headers, events, renames, opened, dirs, exc, tmin, tmax,
                   basepath, free_pars, template, mjd_time, met_time, mjd_back>>

-----------------------------------------------------------------------------
(* run_fit(args): the calls on the engine.  Every entry of the trace carries
   the source line of its call.  A call on the engine either returns or raises;
   an exception is not caught, so it ends the run after the call that raised. *)

Outcomes(calls) ==
    {[made |-> calls, ok |-> TRUE]}
        \cup {[made |-> SubSeq(calls, 1, k), ok |-> FALSE] : k \in 1..Len(calls)}

EngineStep(here, next, calls) ==
    /\ pc = here
    /\ \E r \in Outcomes(calls) :
          /\ trace' = trace \o r.made
          /\ pc' = IF r.ok THEN next ELSE "raised"
          /\ exc' = IF r.ok THEN exc ELSE "engine"

IntName(fmt, a) == [format |-> fmt, emin |-> a.emin, emax |-> a.emax]

\* lines 106-107
Construct ==
    /\ EngineStep("construct", "setup",
                  <<[line |-> 106, op |-> "GTAnalysis",
                     config |-> PathJoin(Value(basepath), CONFIG_YAML), verbosity |-> 3]>>)
    /\ UNCHANGED <<args, folder, headers, events, renames, opened, dirs, tmin, tmax, basepath,
                   written, free_pars, template, mjd_time, met_time, mjd_back>>

\* line 108
Setup ==
    /\ EngineStep("setup", "free", <<[line |-> 108, op |-> "setup"]>>)
    /\ UNCHANGED <<args, folder, headers, events, renames, opened, dirs, tmin, tmax, basepath,
                   written, free_pars, template, mjd_time, met_time, mjd_back>>

\* lines 111-119 with the two tests in the other order
FreeCalls_ListFirst(a) ==
    IF ~IsNone(a.free_sources)
    THEN [i \in 1..Len(Value(a.free_sources)) |->
             [line |-> 119, op |-> "free_source", name |-> Value(a.free_sources)[i],
              pars |-> None, free |-> TRUE]]
    ELSE IF ~IsNone(a.free_radius)
    THEN <<[line |-> 113, op |-> "free_sources", distance |-> Value(a.free_radius),
            minmax_ts |-> <<Some(2), None>>, exclude |-> <<ISODIFF, GALDIFF>>]>>
    ELSE <<>>

\* lines 111-119
FreeCalls(a) ==
    IF ~IsNone(a.free_radius)
    THEN <<[line |-> 113, op |-> "free_sources", distance |-> Value(a.free_radius),
            minmax_ts |-> <<Some(2), None>>, exclude |-> <<ISODIFF, GALDIFF>>]>>
    ELSE IF ~IsNone(a.free_sources)
    THEN [i \in 1..Len(Value(a.free_sources)) |->
             [line |-> 119, op |-> "free_source", name |-> Value(a.free_sources)[i],
              pars |-> None, free |-> TRUE]]
    ELSE <<>>

FreeSources ==
    /\ EngineStep("free", "target", FreeCalls(args))
    /\ UNCHANGED <<args, folder, headers, events, renames, opened, dirs, tmin, tmax, basepath,
                   written, free_pars, template, mjd_time, met_time, mjd_back>>

\* lines 122-130: the calls, and the value bound to free_pars
TargetCalls(a) ==
    IF ~IsNone(a.src_gamma)
    THEN <<[line |-> 124, op |-> "set_parameter", name |-> Replace(a.target_src, "_", " "),
            par |-> "Index", value |-> Value(a.src_gamma)]>>
    ELSE IF a.free_norm THEN <<>>
    ELSE <<[line |-> 129, op |-> "optimize"]>>

\* free_pars with the free_norm branch binding None
TargetFreePars_GammaOnly(a) ==
    IF ~IsNone(a.src_gamma) THEN Some("norm") ELSE None

TargetFreePars(a) ==
    IF ~IsNone(a.src_gamma) THEN Some("norm")
    ELSE IF a.free_norm THEN Some("norm")
    ELSE None

ConfigureTarget ==
    /\ EngineStep("target", "unfree", TargetCalls(args))
    /\ free_pars' = IF pc' = "raised" THEN free_pars ELSE TargetFreePars(args)
    /\ UNCHANGED <<args, folder, headers, events, renames, opened, dirs, tmin, tmax, basepath,
                   written, template, mjd_time, met_time, mjd_back>>

\* line 132
UnfreeTarget ==
    /\ EngineStep("unfree", "refree",
                  <<[line |-> 132, op |-> "free_source", name |-> Src, pars |-> None,
                     free |-> FALSE]>>)
    /\ UNCHANGED <<args, folder, headers, events, renames, opened, dirs, tmin, tmax, basepath,
                   written, free_pars, template, mjd_time, met_time, mjd_back>>

\* line 133
RefreeTarget ==
    /\ EngineStep("refree", "diffuse",
                  <<[line |-> 133, op |-> "free_source", name |-> Src, pars |-> free_pars,
                     free |-> TRUE]>>)
    /\ UNCHANGED <<args, folder, headers, events, renames, opened, dirs, tmin, tmax, basepath,
                   written, free_pars, template, mjd_time, met_time, mjd_back>>

\* lines 136-139
DiffuseCalls(a) ==
    IF a.free_diff
    THEN <<[line |-> 138, op |-> "free_source", name |-> GALDIFF, pars |-> Some("norm"),
            free |-> TRUE],
           [line |-> 139, op |-> "free_source", name |-> ISODIFF, pars |-> Some("norm"),
            free |-> TRUE]>>
    ELSE <<>>

FreeDiffuse ==
    /\ EngineStep("diffuse", "fit", DiffuseCalls(args))
    /\ UNCHANGED <<args, folder, headers, events, renames, opened, dirs, tmin, tmax, basepath,
                   written, free_pars, template, mjd_time, met_time, mjd_back>>

\* line 140
Fit ==
    /\ EngineStep("fit", "write_roi", <<[line |-> 140, op |-> "fit", retries |-> args.retries]>>)
    /\ UNCHANGED <<args, folder, headers, events, renames, opened, dirs, tmin, tmax, basepath,
                   written, free_pars, template, mjd_time, met_time, mjd_back>>

\* line 141
WriteRoi ==
    /\ EngineStep("write_roi", "bowtie",
                  <<[line |-> 141, op |-> "write_roi",
                     outfile |-> IntName("llh_emin_{}_emax_{}.npy", args)]>>)
    /\ UNCHANGED <<args, folder, headers, events, renames, opened, dirs, tmin, tmax, basepath,
                   written, free_pars, template, mjd_time, met_time, mjd_back>>

\* lines 144-148: np.save follows a bowtie call that returned
Bowtie ==
    /\ pc = "bowtie"
    /\ \E ok \in BOOLEAN :
          /\ trace' = trace \o <<[line |-> 144, op |-> "bowtie", name |-> Src]>>
                        \o (IF ok THEN <<[line |-> 145, op |-> "save", dir |-> Value(basepath),
                                          file |-> IntName("bowtie_emin_{}_emax_{}.npy", args)]>>
                            ELSE <<>>)
          /\ pc' = IF ok THEN "sed" ELSE "raised"
          /\ exc' = IF ok THEN exc ELSE "engine"
    /\ UNCHANGED <<args, folder, headers, events, renames, opened, dirs, tmin, tmax, basepath,
                   written, free_pars, template, mjd_time, met_time, mjd_back>>

\* np.log10 of a power of ten, in units of 1/10 dex
RECURSIVE Log10(_)
Log10(e) == IF e < 10 THEN 0 ELSE 10 + Log10(e \div 10)

\* np.arange(start, stop, step): start + i * step for i < ceil((stop - start) / step)
Arange(start, stop, step) ==
    LET n == IF stop > start THEN (stop - start + step - 1) \div step ELSE 0
    IN  [i \in 1..n |-> start + (i - 1) * step]

\* lines 155-156, with the bin width 0.5 as 5 tenths
LogeBins(emin, emax) == Arange(Log10(emin), Log10(emax), 5)

\* lines 152-158 without the test of no_sed
SedCalls_Always(a, fp) ==
    <<[line |-> 154, op |-> "sed", name |-> Replace(a.target_src, "_", " "),
       outfile |-> IntName("sed_emin_{}_emax_{}.fits", a),
       loge_bins |-> LogeBins(a.emin, a.emax),
       free_pars |-> fp, free_radius |-> a.free_radius]>>

\* lines 152-158
SedCalls(a, fp) ==
    IF ~a.no_sed
    THEN <<[line |-> 154, op |-> "sed", name |-> Replace(a.target_src, "_", " "),
            outfile |-> IntName("sed_emin_{}_emax_{}.fits", a),
            loge_bins |-> LogeBins(a.emin, a.emax),
            free_pars |-> fp, free_radius |-> a.free_radius]>>
    ELSE <<>>

Sed ==
    /\ EngineStep("sed", "done", SedCalls(args, free_pars))
    /\ UNCHANGED <<args, folder, headers, events, renames, opened, dirs, tmin, tmax, basepath,
                   written, free_pars, template, mjd_time, met_time, mjd_back>>

Init == InitRun

Next ==
    \/ ResolveTime
    \/ NameOutput
    \/ PrepareFiles
    \/ MakeOutdir
    \/ WriteConfig
    \/ Construct
    \/ Setup
    \/ FreeSources
    \/ ConfigureTarget
    \/ UnfreeTarget
    \/ RefreeTarget
    \/ FreeDiffuse
    \/ Fit
    \/ WriteRoi
    \/ Bowtie
    \/ Sed

Spec == Init /\ [][Next]_vars

\* run_fit, and get_time_window called on its own
SpecWindow == (InitRun \/ InitTime) /\ [][Next \/ NextTime]_vars

-----------------------------------------------------------------------------
(* Properties *)

NoSpacecraft == "Exception: No Spacecraft File Available!"

\* The positions of the calls made from source line l
AtLine(l) == {i \in 1..Len(trace) : trace[i].line = l}

RunPcs == {"start", "naming", "prep", "mkdir", "config", "construct", "setup", "free",
           "target", "unfree", "refree", "diffuse", "fit", "write_roi", "bowtie", "sed",
           "done", "raised"}
PastFree == {"target", "unfree", "refree", "diffuse", "fit", "write_roi", "bowtie", "sed", "done"}
PastTarget == PastFree \ {"target"}
PastRefree == PastTarget \ {"unfree", "refree"}
PastPrep == {"mkdir", "config", "construct", "setup", "free"} \cup PastFree

\* C1: setup_data_files on a folder without spacecraft.fits renames the one file
\* whose name contains 'SC' to spacecraft.fits and returns; with no such file or
\* several it raises and renames nothing.  With spacecraft.fits in place it
\* returns and renames nothing, however many 'SC' files there are.
C1_SetupDataFiles ==
    [][SetupDataFilesCall =>
        LET sc == ScFiles(folder)
        IN  IF SPACECRAFT \notin folder
            THEN IF Cardinality(sc) = 1
                 THEN /\ exc' = "" /\ pc' = "prepared"
                      /\ \E f \in sc :
                            renames' = Append(renames, <<PathJoin(DataPath, f),
                                                         PathJoin(DataPath, SPACECRAFT)>>)
                      /\ folder' \ {EVENTS} = ((folder \ sc) \cup {SPACECRAFT}) \ {EVENTS}
                 ELSE /\ exc' = NoSpacecraft /\ pc' = "failed"
                      /\ renames' = renames
                      /\ folder' \ {EVENTS} = folder \ {EVENTS}
            ELSE /\ exc' = "" /\ pc' = "prepared"
                 /\ renames' = renames
                 /\ folder' \ {EVENTS} = folder \ {EVENTS}]_vars

C1_Witness ==
    /\ pc = "prepared"
    /\ Len(renames) = 1
    /\ SPACECRAFT \in folder
    /\ ScFiles(folder) = {}

\* C2: when free_radius is supplied, free_sources is called once from line 113,
\* excluding isodiff and galdiff, and free_source is never called for an entry
\* of the free_sources list; the per-source calls are made only when
\* free_radius is None and the list is supplied, one per entry and in its
\* order; with both None neither call is made before the target is configured.
C2_RadiusPrecedence ==
    pc \in RunPcs =>
        LET radius == AtLine(113)
            listed == AtLine(119)
        IN  /\ ~IsNone(args.free_radius) =>
                  /\ listed = {}
                  /\ Cardinality(radius) <= 1
                  /\ pc \in PastFree => Cardinality(radius) = 1
                  /\ \A i \in radius :
                        /\ trace[i].op = "free_sources"
                        /\ trace[i].distance = Value(args.free_radius)
                        /\ trace[i].exclude = <<ISODIFF, GALDIFF>>
            /\ IsNone(args.free_radius) => radius = {}
            /\ listed # {} => IsNone(args.free_radius) /\ ~IsNone(args.free_sources)
            /\ (IsNone(args.free_radius) /\ ~IsNone(args.free_sources) /\ pc \in PastFree) =>
                  /\ Cardinality(listed) = Len(Value(args.free_sources))
                  /\ \A i \in listed : \A j \in listed :
                        i < j => \E m, n \in 1..Len(Value(args.free_sources)) :
                                    /\ m < n
                                    /\ trace[i].name = Value(args.free_sources)[m]
                                    /\ trace[j].name = Value(args.free_sources)[n]
            /\ (IsNone(args.free_radius) /\ IsNone(args.free_sources)) =>
                  radius = {} /\ listed = {}

C2_Witness ==
    /\ pc = "done"
    /\ ~IsNone(args.free_radius)
    /\ ~IsNone(args.free_sources)
    /\ Len(Value(args.free_sources)) > 0
    /\ Cardinality(AtLine(113)) = 1
    /\ AtLine(119) = {}

\* C3: the bin edges passed to sed start at log10(emin), are 0.5 apart and end
\* at log10(emax) (2.0 to 5.0 for emin = 100 and emax = 100000).
C3_BinEdges ==
    pc \in RunPcs =>
        \A i \in AtLine(154) :
            LET bins == trace[i].loge_bins
            IN  /\ Len(bins) >= 1
                /\ bins[1] = Log10(args.emin)
                /\ \A k \in 1..(Len(bins) - 1) : bins[k + 1] - bins[k] = 5
                /\ bins[Len(bins)] = Log10(args.emax)

\* The freed parameter set the three-way decision of C4 gives
C4_Freed ==
    IF ~IsNone(args.src_gamma) THEN Some("norm")
    ELSE IF args.free_norm THEN Some("norm")
    ELSE None

\* C4: with src_gamma supplied, set_parameter(target, 'Index', src_gamma) is
\* called, optimize is not, and 'norm' is freed; else with free_norm set,
\* neither is called and 'norm' is freed; otherwise optimize is called once and
\* nothing is freed.  The target is then un-freed (free=False, all pars) and
\* right after re-freed (free=True) with that set, which is also the free_pars
\* of the later sed call.
C4_TargetConfiguration ==
    pc \in RunPcs =>
        LET setpar == AtLine(124)
            optim == AtLine(129)
        IN  /\ pc \in PastTarget =>
                  /\ free_pars = C4_Freed
                  /\ IF ~IsNone(args.src_gamma)
                     THEN /\ Cardinality(setpar) = 1 /\ optim = {}
                          /\ \A i \in setpar :
                                /\ trace[i].op = "set_parameter"
                                /\ trace[i].name = Src
                                /\ trace[i].par = "Index"
                                /\ trace[i].value = Value(args.src_gamma)
                     ELSE IF args.free_norm
                     THEN setpar = {} /\ optim = {}
                     ELSE setpar = {} /\ Cardinality(optim) = 1
            /\ pc \in PastRefree =>
                  \E i \in AtLine(132) :
                      /\ AtLine(132) = {i} /\ AtLine(133) = {i + 1}
                      /\ \A j \in setpar \cup optim : j < i
                      /\ trace[i].op = "free_source" /\ trace[i].name = Src
                      /\ trace[i].free = FALSE /\ trace[i].pars = None
                      /\ trace[i + 1].op = "free_source" /\ trace[i + 1].name = Src
                      /\ trace[i + 1].free = TRUE /\ trace[i + 1].pars = C4_Freed
            /\ \A i \in AtLine(154) : trace[i].free_pars = C4_Freed

C4_Witness ==
    /\ pc = "done"
    /\ ~args.no_sed
    /\ IsNone(args.src_gamma)
    /\ ~args.free_norm
    /\ Cardinality(AtLine(129)) = 1
    /\ \E i \in AtLine(154) : trace[i].free_pars = None

\* The source lines of the calls, in the order of C5
C5_Order == <<102, 106, 108, 113, 119, 124, 129, 132, 133, 138, 139, 140, 141, 144, 145, 154>>
C5_Rank(l) == CHOOSE k \in 1..Len(C5_Order) : C5_Order[k] = l

\* C5: the calls of a run are made in the order config.yaml written, session
\* constructed, setup, source freeing, target configuration, un-free, re-free,
\* diffuse freeing (only with free_diff), fit, write_roi, bowtie, sed (never
\* with no_sed); each call follows the return of the ones before it, and only
\* the per-source freeing of line 119 is made more than once.
C5_CallOrder ==
    pc \in RunPcs =>
        LET calls == SelectSeq(trace, LAMBDA c : c.line # 78)
        IN  /\ \A i \in 1..(Len(calls) - 1) :
                  \/ C5_Rank(calls[i].line) < C5_Rank(calls[i + 1].line)
                  \/ calls[i].line = 119 /\ calls[i + 1].line = 119
            /\ \A i \in 1..Len(calls) :
                  /\ calls[i].line > 102 => calls[1].line = 102
                  /\ calls[i].line > 106 => calls[2].line = 106
                  /\ calls[i].line > 108 => calls[3].line = 108
                  /\ calls[i].line >= 140 =>
                        /\ Cardinality(AtLine(132)) = 1 /\ Cardinality(AtLine(133)) = 1
                        /\ args.free_diff =>
                              Cardinality(AtLine(138)) = 1 /\ Cardinality(AtLine(139)) = 1
                  /\ calls[i].line > 140 => Cardinality(AtLine(140)) = 1
                  /\ calls[i].line > 141 => Cardinality(AtLine(141)) = 1
                  /\ calls[i].line > 144 => Cardinality(AtLine(144)) = 1
            /\ ~args.free_diff => AtLine(138) = {} /\ AtLine(139) = {}
            /\ args.no_sed => AtLine(154) = {}
            /\ (pc = "done" /\ ~args.no_sed) => Cardinality(AtLine(154)) = 1

C5_Witness ==
    /\ pc = "done"
    /\ args.free_diff
    /\ ~args.no_sed
    /\ AtLine(113) # {}
    /\ AtLine(138) # {}
    /\ trace[Len(trace)].op = "sed"

\* The keys of the configuration document that run_fit overrides
C6_Overridden ==
    {<<"selection", "emin">>, <<"selection", "emax">>, <<"selection", "tmin">>,
     <<"selection", "tmax">>, <<"selection", "target">>, <<"data", "evfile">>,
     <<"data", "scfile">>, <<"model", "catalogs">>}

\* C6: the document written to config.yaml has the template's sections and keys
\* and differs from the template only in selection.emin, emax, tmin, tmax and
\* target, data.evfile, data.scfile and model.catalogs.  evfile and scfile are
\* data_path joined with the base filename of the template's value; catalogs is
\* [xml_path if supplied] followed by ['3FGL' if use_3FGL], and so empty when
\* neither is given, whatever the template's catalogs.
C6_ConfigDocument ==
    (pc \in RunPcs /\ ~IsNone(written)) =>
        LET w == Value(written)
        IN  /\ DOMAIN w = DOMAIN template
            /\ \A sec \in DOMAIN template :
                  /\ DOMAIN w[sec] = DOMAIN template[sec]
                  /\ \A key \in DOMAIN template[sec] :
                        <<sec, key>> \notin C6_Overridden => w[sec][key] = template[sec][key]
            /\ w.selection.emin = args.emin /\ w.selection.emax = args.emax
            /\ w.selection.tmin = Value(tmin) /\ w.selection.tmax = Value(tmax)
            /\ w.selection.target = Src
            /\ w.data.evfile = PathJoin(args.data_path, LastSegment(template.data.evfile))
            /\ w.data.scfile = PathJoin(args.data_path, LastSegment(template.data.scfile))
            /\ Len(w.model.catalogs) =
                  (IF IsNone(args.xml_path) THEN 0 ELSE 1) + (IF args.use_3FGL THEN 1 ELSE 0)
            /\ ~IsNone(args.xml_path) => w.model.catalogs[1] = Value(args.xml_path)
            /\ args.use_3FGL => w.model.catalogs[Len(w.model.catalogs)] = FGL

C6_Witness ==
    /\ pc = "done"
    /\ ~IsNone(written)
    /\ IsNone(args.xml_path) /\ ~args.use_3FGL
    /\ Len(template.model.catalogs) > 0
    /\ Value(written).model.catalogs = <<>>
    /\ Value(written).data.evfile = <<"d", "/", "e", ".", "t">>

\* C7: with outfolder None the run names a default output directory and goes on
\* to file preparation and config writing as it does with outfolder supplied:
\* once the time window is resolved, the run is either about to name the
\* directory or has named it.
C7_DefaultOutfolder ==
    (pc \in RunPcs /\ IsNone(args.outfolder) /\ ~IsNone(tmin)) =>
        (pc = "naming" \/ ~IsNone(basepath))

\* The least TSTART and the greatest TSTOP over the files of S
C8_IsWindow(S, lo, hi) ==
    /\ \A f \in S : lo <= headers[f].TSTART /\ headers[f].TSTOP <= hi
    /\ \E f \in S : lo = headers[f].TSTART
    /\ \E f \in S : hi = headers[f].TSTOP

\* C8: get_time_window returns the least TSTART and the greatest TSTOP over the
\* files whose names contain 'PH', in whatever order the directory lists them,
\* and reads no other file.  run_fit uses it only when time_range is None; with
\* time_range given, tmin and tmax are its bounds through MJD_to_MET and no
\* header is read.
C8_TimeWindow ==
    /\ pc = "resolved" =>
          /\ opened = PhFiles(folder) /\ opened # {}
          /\ C8_IsWindow(PhFiles(folder), Value(tmin), Value(tmax))
    /\ pc = "window_failed" => PhFiles(folder) = {} /\ opened = {}
    /\ (pc \in RunPcs /\ pc # "start") =>
          IF ~IsNone(args.time_range)
          THEN /\ opened = {}
               /\ tmin = Some(MJD_to_MET(Value(args.time_range)[1]))
               /\ tmax = Some(MJD_to_MET(Value(args.time_range)[2]))
          ELSE IF IsNone(tmin)
          THEN pc = "raised" /\ opened = {} /\ PhFiles(folder) = {}
          ELSE /\ opened # {}
               /\ pc = "naming" => opened = PhFiles(folder)
               /\ C8_IsWindow(opened, Value(tmin), Value(tmax))
    /\ pc = "start" => opened = {} /\ IsNone(tmin) /\ IsNone(tmax)

C8_Witness ==
    /\ pc = "resolved"
    /\ PLAIN \in folder
    /\ Cardinality(opened) >= 2
    /\ \E f \in opened : headers[f].TSTART > Value(tmin) /\ headers[f].TSTOP = Value(tmax)
    /\ \E f \in opened : headers[f].TSTART = Value(tmin) /\ headers[f].TSTOP < Value(tmax)

\* C9: MET_to_MJD(MJD_to_MET(x)) = x, at the resolution of the model.
C9_RoundTrip ==
    pc = "back" => mjd_back = mjd_time

C9_Witness ==
    /\ pc = "back"
    /\ mjd_back = mjd_time
    /\ Value(met_time) > 0
    /\ Value(mjd_time) > MJDREF

\* C10: when setup_data_files raises inside run_fit, the run ends there: no
\* output directory is made, config.yaml is not written and the engine is not
\* called; the failed call renames nothing and changes the data directory at
\* most by creating events.txt, listing the files whose names contain 'PH'.
\* After a call that returned, a second call changes nothing in the directory.
C10_FailedPreparation ==
    /\ [][(PrepareFiles /\ exc' # "") =>
             /\ pc' = "raised" /\ exc' = NoSpacecraft
             /\ trace' = <<>> /\ written' = None /\ dirs' = dirs
             /\ renames' = renames
             /\ folder' \ {EVENTS} = folder \ {EVENTS}
             /\ IF EVENTS \in folder
                THEN folder' = folder /\ events' = events
                ELSE \E o \in Orderings(PhFiles(folder)) :
                        events' = Some(JoinLines([i \in 1..Len(o) |-> PathJoin(DataPath, o[i])]))
       ]_vars
    /\ [][pc # "raised"]_vars
    /\ [][pc' \in PastPrep =>
             \A o \in Orderings(PhFiles(folder')) :
                 SetupDataFiles(folder', events', o) =
                     [files |-> folder', events |-> events', renames |-> <<>>, exc |-> ""]
       ]_vars

C10_Witness ==
    /\ pc = "raised"
    /\ exc = NoSpacecraft
    /\ ~IsNone(events)
    /\ events # Some(OldEvents)
    /\ Cardinality(ScFiles(folder)) >= 2
    /\ trace = <<>>

====
